---- MODULE Spec2Model ----
(***************************************************************************)
(* bilder/segment_image.py: segment_objects(image_path) cuts the objects   *)
(* of a photograph on a white background out into alpha-masked PNG files   *)
(* part_NN.png under <parent of image_path>/segmented_parts.               *)
(*                                                                         *)
(* The persistent state is the output directory; one call of               *)
(* segment_objects is one action whose input is the content of the file at *)
(* image_path when the call is made.                                       *)
(*                                                                         *)
(* Rasters are piecewise constant: a white page carrying disjoint          *)
(* rectilinear regions, each of one colour, every feature and every gap at *)
(* least 5 pixels wide, so that the 5x5 closing and opening leave the      *)
(* binarized raster as it is and cv2.findContours yields one external      *)
(* contour per foreground region, its vertices the corners of the region.  *)
(* A written PNG is kept as the slice it was cropped from plus the fill    *)
(* that was drawn into its mask; Alpha rasterises it pixel by pixel.       *)
(***************************************************************************)
EXTENDS Integers, Sequences, FiniteSets, TLC

VARIABLES
    disk,       \* <parent>/segmented_parts: whether it exists, and its files
                \* (file name -> PNG content)
    console,    \* what the most recent call printed, in order
    retval,     \* what the most recent call returned
    seen,       \* the content of image_path that the most recent call read
    calls,      \* number of calls of segment_objects made so far
    repeated,   \* whether the most recent call read what the call before it read
    arg,        \* argument of the library function under test (its own specifications)
    res         \* its result

vars == <<disk, console, retval, seen, calls, repeated, arg, res>>

(* ------------------------------ bounds -------------------------------- *)
\* Input pictures: every sequence of at most MaxBlobs objects, plus one
\* picture of CrowdSize objects (file names of two significant digits).
MaxBlobs == 2
CrowdSize == 10
\* Calls of segment_objects in one behaviour.
MaxRuns == 3
\* Largest width and height of a bounding box in SpecCrop.
MaxBox == 3

(* -------------------------- program constants ------------------------- *)
thresh_value == 240
maxval == 255
min_area == 1000
padding == 20
first_idx == 1

(* ------------------------------ helpers ------------------------------- *)
Min(a, b) == IF a < b THEN a ELSE b
Max(a, b) == IF a > b THEN a ELSE b
Abs(a) == IF a < 0 THEN -a ELSE a
SetMin(S) == CHOOSE m \in S : \A s \in S : m <= s
SetMax(S) == CHOOSE m \in S : \A s \in S : m >= s

RECURSIVE SumTo(_, _)
SumTo(f, n) == IF n = 0 THEN 0 ELSE f[n] + SumTo(f, n - 1)

(* ------------------------- the input pictures -------------------------- *)
\* Outlines of the two kinds of object, vertices <<x, y>> relative to the
\* object's top-left pixel.  "ell" is an L of enclosed area 1001, "edge" a
\* 41 x 26 pixel rectangle of enclosed area exactly 1000.
BlobTypes == {"ell", "edge"}

Outline(type) ==
    IF type = "ell"
    THEN << <<0, 0>>, <<39, 0>>, <<39, 25>>, <<13, 25>>, <<13, 27>>, <<0, 27>> >>
    ELSE << <<0, 0>>, <<40, 0>>, <<40, 25>>, <<0, 25>> >>

\* The colour (b, g, r) an object of each kind is painted in; the page is white.
Ink(type) == IF type = "ell" THEN <<240, 240, 240>> ELSE <<0, 0, 0>>
White == <<255, 255, 255>>

Layout == [left |-> 5, top |-> 5, low |-> 25, gap |-> 8, right |-> 10, height |-> 60]

OutlineW(type) == SetMax({Outline(type)[i][1] : i \in DOMAIN Outline(type)}) + 1

RECURSIVE OffX(_, _)
OffX(types, i) ==
    IF i = 1 THEN Layout.left
    ELSE OffX(types, i - 1) + OutlineW(types[i - 1]) + Layout.gap
OffY(i) == IF i % 2 = 1 THEN Layout.top ELSE Layout.low

PageW(types) ==
    IF types = <<>> THEN Layout.height
    ELSE OffX(types, Len(types)) + OutlineW(types[Len(types)]) + Layout.right

Unreadable == [ok |-> FALSE, blobs |-> <<>>]
Crowd == [ok |-> TRUE, blobs |-> [i \in 1..CrowdSize |-> "ell"]]
Inputs ==
    {Unreadable, Crowd}
    \cup {[ok |-> TRUE, blobs |-> s] : s \in UNION {[1..n -> BlobTypes] : n \in 0..MaxBlobs}}

(* ------------------------- library functions --------------------------- *)
\* contour - [dx, dy]
Shift(cnt, dx, dy) == [i \in DOMAIN cnt |-> <<cnt[i][1] - dx, cnt[i][2] - dy>>]

\* cv2.imread: None for a file that cannot be decoded, else the raster
imread(file) ==
    IF ~file.ok THEN [isNone |-> TRUE, shape |-> <<0, 0, 3>>, regions |-> <<>>]
    ELSE [isNone |-> FALSE,
          shape |-> <<Layout.height, PageW(file.blobs), 3>>,
          regions |-> [i \in DOMAIN file.blobs |->
                         [cnt |-> Shift(Outline(file.blobs[i]),
                                        -OffX(file.blobs, i), -OffY(i)),
                          value |-> Ink(file.blobs[i])]]]

\* cv2.cvtColor(..., COLOR_BGR2GRAY) of one pixel (8-bit fixed point)
BGR2GRAY(bgr) == (bgr[1] * 1868 + bgr[2] * 9617 + bgr[3] * 4899 + 8192) \div 16384

\* cv2.threshold(gray, 240, 255, THRESH_BINARY_INV) of one pixel
threshold_binary(g) == IF g > thresh_value THEN maxval ELSE 0
threshold(g) == IF g > thresh_value THEN 0 ELSE maxval

\* cv2.findContours(thresh, RETR_EXTERNAL, CHAIN_APPROX_SIMPLE) after the
\* grayscale conversion, the threshold and the two morphologyEx calls
findContours(img) ==
    LET fg == SelectSeq(img.regions,
                        LAMBDA r : threshold(BGR2GRAY(r.value)) # 0
                                   /\ threshold(BGR2GRAY(White)) = 0)
    IN [i \in DOMAIN fg |-> fg[i].cnt]

\* 2 * cv2.contourArea(cnt): the shoelace sum
contourArea2(cnt) ==
    LET n == Len(cnt)
        nxt(i) == (i % n) + 1
        term == [i \in 1..n |-> cnt[i][1] * cnt[nxt(i)][2] - cnt[nxt(i)][1] * cnt[i][2]]
    IN Abs(SumTo(term, n))

\* cv2.boundingRect(cnt) = (x, y, w, h)
boundingRect(cnt) ==
    LET xs == {cnt[i][1] : i \in DOMAIN cnt}
        ys == {cnt[i][2] : i \in DOMAIN cnt}
    IN <<SetMin(xs), SetMin(ys), SetMax(xs) - SetMin(xs) + 1, SetMax(ys) - SetMin(ys) + 1>>

\* The pixels a filled drawing of a rectilinear contour covers: those on the
\* outline and those inside it, row by row.
Edges(cnt) == {<<cnt[i], cnt[(i % Len(cnt)) + 1]>> : i \in DOMAIN cnt}

RowCrossings(cnt, y) ==
    {e[1][1] : e \in {e \in Edges(cnt) :
                        /\ e[1][1] = e[2][1]
                        /\ Min(e[1][2], e[2][2]) <= y
                        /\ y < Max(e[1][2], e[2][2])}}

RowInside(cnt, y) ==
    LET C == RowCrossings(cnt, y)
    IN UNION {p[1]..p[2] : p \in {p \in C \X C :
                /\ p[1] < p[2]
                /\ Cardinality({c \in C : c < p[1]}) % 2 = 0
                /\ ~\E c \in C : p[1] < c /\ c < p[2]}}

RowOutline(cnt, y) ==
    UNION {IF e[1][2] = e[2][2]
           THEN IF e[1][2] = y THEN Min(e[1][1], e[2][1])..Max(e[1][1], e[2][1]) ELSE {}
           ELSE IF Min(e[1][2], e[2][2]) <= y /\ y <= Max(e[1][2], e[2][2])
                THEN {e[1][1]} ELSE {}
           : e \in Edges(cnt)}

FillPoly(cnt) ==
    LET ys == {cnt[i][2] : i \in DOMAIN cnt}
    IN UNION {{<<x, y>> : x \in RowInside(cnt, y) \cup RowOutline(cnt, y)}
              : y \in SetMin(ys)..SetMax(ys)}

\* np.zeros((rows, cols), np.uint8), a pixel addressed <<x, y>>
zeros(rows, cols) == [p \in (0..cols - 1) \X (0..rows - 1) |-> 0]

\* cv2.drawContours(mask, [cnt], -1, color, -1): the filled contour, clipped
drawContours(mask, cnt, color) ==
    LET inside == FillPoly(cnt)
    IN [p \in DOMAIN mask |-> IF p \in inside THEN color ELSE mask[p]]

(* ------------------------------ the export ----------------------------- *)
\* lines 48-53: the bounding box padded and clamped to the raster
PaddedBox_swapped(shape, rect) ==
    [x1 |-> Max(0, rect[1] - padding),
     y1 |-> Max(0, rect[2] - padding),
     x2 |-> Min(shape[1], rect[1] + rect[3] + padding),
     y2 |-> Min(shape[2], rect[2] + rect[4] + padding)]
PaddedBox(shape, rect) ==
    LET x == rect[1]
        y == rect[2]
        w == rect[3]
        h == rect[4]
    IN [x1 |-> Max(0, x - padding),
        y1 |-> Max(0, y - padding),
        x2 |-> Min(shape[2], x + w + padding),
        y2 |-> Min(shape[1], y + h + padding)]

\* contour - [x1, y1]
contour_unshifted(contour, box) == contour
contour_shifted(contour, box) == Shift(contour, box.x1, box.y1)

\* f"{idx:02d}"
Fmt02d(idx) == IF idx < 10 THEN "0" \o ToString(idx) ELSE ToString(idx)

\* f"part_{idx:02d}.png"
PartName(idx) == "part_" \o Fmt02d(idx) \o ".png"

\* enumerate(valid_contours, 1): the index that goes with the i-th element
IdxOf_zero(i) == i - 1
IdxOf(i) == first_idx + (i - 1)

dir_name == "segmented_parts"

\* roi_rgba: roi = img[y1:y2, x1:x2].copy() under the mask drawn for contour
roi_rgba(img, contour) ==
    LET box == PaddedBox(img.shape, boundingRect(contour))
    IN [bgr |-> [x1 |-> box.x1, y1 |-> box.y1, x2 |-> box.x2, y2 |-> box.y2,
                 of |-> img.regions],
        mask |-> [rows |-> box.y2 - box.y1,
                  cols |-> box.x2 - box.x1,
                  contour |-> contour_shifted(contour, box),
                  color |-> maxval]]

\* The alpha channel of a written PNG, roi_rgba[:, :, 3] = mask
Alpha(png) == drawContours(zeros(png.mask.rows, png.mask.cols), png.mask.contour,
                           png.mask.color)

\* cv2.imwrite: creates the file or replaces its content
imwrite_unique(entries, name, content) ==
    LET target == IF name \in DOMAIN entries THEN name \o ".1" ELSE name
    IN [n \in DOMAIN entries \cup {target} |-> IF n = target THEN content ELSE entries[n]]
imwrite(entries, name, content) ==
    [n \in DOMAIN entries \cup {name} |-> IF n = name THEN content ELSE entries[n]]

\* output_dir.mkdir(exist_ok=True)
NoFiles == [n \in {} |-> 0]
mkdir_skip(d) == d
mkdir_fresh(d) == [exists |-> TRUE, files |-> NoFiles]
mkdir(d) == [d EXCEPT !.exists = TRUE]

Msg(kind, path, a, b, c) == [kind |-> kind, path |-> path, a |-> a, b |-> b, c |-> c]

None == [isNone |-> TRUE, list |-> <<>>]

\* What a call that ran to the end of the function body returns
returned_list(saved) == [isNone |-> FALSE, list |-> saved]
returned(saved) == None

\* lines 10-12: the directory after a call that could not read the image
on_unreadable_mkdir(d) == [d EXCEPT !.exists = TRUE]
on_unreadable(d) == d

\* line 35: the area filter
is_valid_ge(cnt) == contourArea2(cnt) >= 2 * min_area
is_valid(cnt) == contourArea2(cnt) > 2 * min_area

\* lines 44-74: the loop body for the elements i..Len(valid) of valid_contours;
\* st = [entries, out, saved]
RECURSIVE export_loop(_, _, _, _)
export_loop(img, valid, i, st) ==
    IF i > Len(valid) THEN st
    ELSE LET contour == valid[i]
             idx == IdxOf(i)
             rect == boundingRect(contour)
             output_path == PartName(idx)
         IN export_loop(img, valid, i + 1,
              [entries |-> imwrite(st.entries, output_path, roi_rgba(img, contour)),
               out |-> Append(st.out, Msg("Saved part", dir_name \o "/" \o output_path,
                                          idx, rect[3], rect[4])),
               saved |-> Append(st.saved, dir_name \o "/" \o output_path)])

\* segment_objects(image_path), file being the content of image_path
run(d, file) ==
    LET img == imread(file)
    IN IF img.isNone
       THEN [disk |-> on_unreadable(d),
             out |-> <<Msg("Error: Could not read image", "", 0, 0, 0)>>,
             ret |-> None]
       ELSE LET contours == findContours(img)
                valid_contours == SelectSeq(contours, is_valid)
                made == mkdir(d)
                st == export_loop(img, valid_contours, 1,
                        [entries |-> made.files,
                         out |-> << Msg("Image shape", "", img.shape[1], img.shape[2], img.shape[3]),
                                    Msg("Found contours", "", Len(contours), 0, 0),
                                    Msg("Found valid objects", "", Len(valid_contours), min_area, 0) >>,
                         saved |-> <<>>])
            IN [disk |-> [exists |-> made.exists, files |-> st.entries],
                out |-> Append(st.out, Msg("Done! Saved", dir_name, Len(valid_contours), 0, 0)),
                ret |-> returned(st.saved)]

(* ------------------------------ the system ----------------------------- *)
Idle == [fn |-> "none", in |-> <<>>]

Init ==
    /\ disk \in {[exists |-> e, files |-> NoFiles] : e \in BOOLEAN}
    /\ console = <<>>
    /\ retval = [isNone |-> FALSE, list |-> <<>>]
    /\ seen = Unreadable
    /\ calls = 0
    /\ repeated = FALSE
    /\ arg = Idle
    /\ res = <<>>

segment_objects(file) ==
    /\ calls < MaxRuns
    /\ LET r == run(disk, file)
       IN /\ disk' = r.disk
          /\ console' = r.out
          /\ retval' = r.ret
    /\ seen' = file
    /\ repeated' = (calls > 0 /\ file = seen)
    /\ calls' = calls + 1
    /\ UNCHANGED <<arg, res>>

Next == \E file \in Inputs : segment_objects(file)

Spec == Init /\ [][Next]_vars

(* ------------- the library functions on their own inputs --------------- *)
Pending == <<>>
MainIdle ==
    /\ disk = [exists |-> FALSE, files |-> NoFiles]
    /\ console = <<>>
    /\ retval = [isNone |-> FALSE, list |-> <<>>]
    /\ seen = Unreadable
    /\ calls = 0
    /\ repeated = FALSE
MainVars == <<disk, console, retval, seen, calls, repeated>>

\* every 8-bit gray level through the threshold
InitThreshold ==
    /\ MainIdle
    /\ arg \in {[fn |-> "threshold", in |-> g] : g \in 0..maxval}
    /\ res = Pending

ApplyThreshold ==
    /\ arg.fn = "threshold"
    /\ res = Pending
    /\ res' = <<threshold(arg.in)>>
    /\ UNCHANGED <<arg, MainVars>>

SpecThreshold == InitThreshold /\ [][ApplyThreshold]_vars

\* rasters and bounding boxes around the places where the padding clamps
Dims == {1, MaxBox, padding, padding + MaxBox, 2 * padding + MaxBox, 2 * padding + MaxBox + 1}
Sizes(D) == {s \in 1..MaxBox : s <= D}
Starts(D, s) ==
    {o \in {0, 1, padding - 1, padding, padding + 1,
            D - s, D - s - padding + 1, D - s - padding, D - s - padding - 1} :
        0 <= o /\ o + s <= D}
Axis == {<<D, o, s>> \in Dims \X (0..(2 * padding + MaxBox + 1)) \X (1..MaxBox) :
            s \in Sizes(D) /\ o \in Starts(D, s)}

InitCrop ==
    /\ MainIdle
    /\ arg \in {[fn |-> "PaddedBox",
                 in |-> << <<v[1], h[1], 3>>, <<h[2], v[2], h[3], v[3]>> >>] :
                    h \in Axis, v \in Axis}
    /\ res = Pending

ApplyCrop ==
    /\ arg.fn = "PaddedBox"
    /\ res = Pending
    /\ res' = <<PaddedBox(arg.in[1], arg.in[2])>>
    /\ UNCHANGED <<arg, MainVars>>

SpecCrop == InitCrop /\ [][ApplyCrop]_vars

(* ------------------------------ the claims ----------------------------- *)
Digit == <<"0", "1", "2", "3", "4", "5", "6", "7", "8", "9">>

\* part_01.png, part_02.png, ...: the two-digit name of index i, 1 <= i <= 99
ExpectedName(i) == "part_" \o Digit[(i \div 10) + 1] \o Digit[(i % 10) + 1] \o ".png"

\* The contours the area filter lets through, of the picture in file
Retained(file) == SelectSeq(findContours(imread(file)), is_valid)

SavedMsgs == SelectSeq(console, LAMBDA m : m.kind = "Saved part")
ErrorMsg == Msg("Error: Could not read image", "", 0, 0, 0)
Called == calls' = calls + 1

\* C1: a call on an image that cannot be read prints the error and leaves the
\* file system as it was: no directory is created, no file is written.
C1_UnreadableLeavesDisk ==
    [][(Called /\ ~seen'.ok) => (disk' = disk /\ console' = <<ErrorMsg>>)]_vars

C1_Witness ==
    /\ calls > 0
    /\ ~seen.ok
    /\ ~disk.exists
    /\ console = <<ErrorMsg>>

\* C2: a call on a readable image with n retained contours writes exactly n
\* files, the i-th retained contour in discovery order to part_<i as two
\* digits>.png, i = 1..n, no index skipped or written twice.
C2_OnePngPerBlob ==
    (calls > 0 /\ seen.ok) =>
        LET img == imread(seen)
            valid == Retained(seen)
            saved == SavedMsgs
        IN /\ Len(saved) = Len(valid)
           /\ \A i \in 1..Len(valid) :
                /\ saved[i].a = i
                /\ saved[i].path = "segmented_parts/" \o ExpectedName(i)
                /\ ExpectedName(i) \in DOMAIN disk.files
                /\ disk.files[ExpectedName(i)] = roi_rgba(img, valid[i])

C2_Witness ==
    /\ calls > 0
    /\ seen = Crowd
    /\ Len(SavedMsgs) >= 10
    /\ SavedMsgs[10].path = "segmented_parts/part_10.png"
    /\ {"part_01.png", "part_09.png", "part_10.png"} \subseteq DOMAIN disk.files

\* C3: for a bounding box inside the image the padded crop rectangle satisfies
\* 0 <= x1 <= x2 <= width and 0 <= y1 <= y2 <= height, with x1 = max(0, x-20),
\* y1 = max(0, y-20), x2 = min(width, x+w+20), y2 = min(height, y+h+20).
C3_CropInsideImage ==
    (arg.fn = "PaddedBox" /\ res # Pending) =>
        LET height == arg.in[1][1]
            width == arg.in[1][2]
            x == arg.in[2][1]
            y == arg.in[2][2]
            w == arg.in[2][3]
            h == arg.in[2][4]
            b == res[1]
        IN /\ 0 <= b.x1 /\ b.x1 <= b.x2 /\ b.x2 <= width
           /\ 0 <= b.y1 /\ b.y1 <= b.y2 /\ b.y2 <= height
           /\ b.x1 = Max(0, x - 20) /\ b.y1 = Max(0, y - 20)
           /\ b.x2 = Min(width, x + w + 20) /\ b.y2 = Min(height, y + h + 20)

C3_Witness ==
    /\ arg.fn = "PaddedBox"
    /\ res # Pending
    /\ arg.in[1][1] > arg.in[1][2]
    /\ arg.in[2][1] < 20 /\ res[1].x1 = 0
    /\ arg.in[2][1] + arg.in[2][3] + 20 > arg.in[1][2] /\ res[1].x2 = arg.in[1][2]
    /\ arg.in[2][2] >= 20 /\ res[1].y1 = arg.in[2][2] - 20
    /\ res[1].y2 = arg.in[2][2] + arg.in[2][4] + 20

\* C4: in every PNG a call writes, each pixel of the crop has alpha 255 if it
\* lies in the filled silhouette of the PNG's own contour, moved by (-x1, -y1)
\* into the crop, and alpha 0 otherwise: the padding border and the pixels of
\* other objects inside the crop are transparent, no other alpha value occurs.
C4_AlphaIsOwnSilhouette ==
    (calls > 0 /\ seen.ok) =>
        LET img == imread(seen)
            valid == Retained(seen)
            page == UNION {FillPoly(img.regions[j].cnt) : j \in DOMAIN img.regions}
        IN \A i \in 1..Len(valid) :
             LET png == disk.files[ExpectedName(i)]
                 alpha == Alpha(png)
                 moved(q) == <<q[1] - png.bgr.x1, q[2] - png.bgr.y1>>
                 silhouette == FillPoly(valid[i])
                 opaque == {p \in DOMAIN alpha : alpha[p] # 0}
             IN /\ DOMAIN alpha = (0..(png.bgr.x2 - png.bgr.x1 - 1))
                                     \X (0..(png.bgr.y2 - png.bgr.y1 - 1))
                /\ opaque = {moved(q) : q \in silhouette}
                /\ \A p \in opaque : alpha[p] = 255
                /\ \A q \in page \ silhouette :
                     moved(q) \in DOMAIN alpha => alpha[moved(q)] = 0

C4_Witness ==
    /\ calls > 0
    /\ seen = [ok |-> TRUE, blobs |-> <<"edge", "ell">>]
    /\ LET png == disk.files["part_01.png"]
           alpha == Alpha(png)
       IN /\ png.bgr.x1 > 0 /\ png.bgr.y1 > 0
          \* a pixel of the L itself, one of its bounding box outside the L,
          \* one of the padding border, one of the rectangle next to it
          /\ alpha[<<54 - png.bgr.x1, 25 - png.bgr.y1>>] = 255
          /\ alpha[<<93 - png.bgr.x1, 52 - png.bgr.y1>>] = 0
          /\ alpha[<<0, 0>>] = 0
          /\ <<45, 30>> \in FillPoly(imread(seen).regions[1].cnt)
          /\ alpha[<<45 - png.bgr.x1, 30 - png.bgr.y1>>] = 0

\* C5 as stated: a successful call returns the list of the n file paths it saved.
C5_ReturnsSavedList ==
    (calls > 0 /\ seen.ok) =>
        retval = [isNone |-> FALSE,
                  list |-> [i \in 1..Len(SavedMsgs) |-> SavedMsgs[i].path]]

\* C5, amended: segment_objects returns nothing (None) on every path; the n
\* saved paths are only printed, one "Saved part" line each, in order.
C5_ReturnsNone ==
    calls > 0 =>
        /\ retval = None
        /\ seen.ok => /\ Len(SavedMsgs) = Len(Retained(seen))
                      /\ \A i \in 1..Len(SavedMsgs) :
                           SavedMsgs[i].path = "segmented_parts/" \o ExpectedName(i)

C5_Witness ==
    /\ calls > 0
    /\ seen.ok
    /\ Len(SavedMsgs) = 2
    /\ retval.isNone
    /\ retval.list = <<>>

\* C6: a call on a readable image none of whose contours passes the area
\* filter is no error: the directory exists afterwards, the call writes no
\* file, and the summary reports 0 valid objects and 0 parts.
C6_NoObjectsStillCreatesDir ==
    [][(Called /\ seen'.ok /\ Len(Retained(seen')) = 0) =>
          /\ disk'.exists
          /\ disk'.files = disk.files
          /\ Len(console') = 4
          /\ console'[3] = Msg("Found valid objects", "", 0, 1000, 0)
          /\ console'[4] = Msg("Done! Saved", "segmented_parts", 0, 0, 0)
          /\ \A k \in DOMAIN console' : console'[k] # ErrorMsg]_vars

C6_Witness ==
    /\ calls = 1
    /\ seen = [ok |-> TRUE, blobs |-> <<"edge">>]
    /\ disk = [exists |-> TRUE, files |-> NoFiles]
    /\ console[2].a = 1
    /\ console[4] = Msg("Done! Saved", "segmented_parts", 0, 0, 0)

\* C7: a second call in a row on the same input leaves the output directory
\* as the first call left it: same files, same content, none added or removed.
C7_Idempotent ==
    [][(Called /\ repeated') => disk' = disk]_vars

C7_Witness ==
    /\ calls = 2
    /\ repeated
    /\ seen.ok
    /\ Len(Retained(seen)) >= 2
    /\ DOMAIN disk.files = {ExpectedName(i) : i \in 1..Len(Retained(seen))}

C9_OnlyLatestParts ==
    (calls > 0 /\ seen.ok) =>
        DOMAIN disk.files = {ExpectedName(i) : i \in 1..Len(Retained(seen))}

\* C9, amended: a successful call that retains n objects writes part_01.png ..
\* part_n.png and neither removes nor changes any other file, so the directory
\* holds the n files of the most recent call plus every part file of a higher
\* index left over from earlier calls.
C9_LeftoversStay ==
    [][(Called /\ seen'.ok) =>
          LET written == {ExpectedName(i) : i \in 1..Len(Retained(seen'))}
          IN /\ DOMAIN disk'.files = DOMAIN disk.files \cup written
             /\ \A f \in DOMAIN disk.files \ written : disk'.files[f] = disk.files[f]]_vars

C9_Witness ==
    /\ calls = 2
    /\ seen = [ok |-> TRUE, blobs |-> <<"ell">>]
    /\ Len(Retained(seen)) = 1
    /\ DOMAIN disk.files = {"part_01.png", "part_02.png"}

\* C10: a contour is retained and exported iff its enclosed area strictly
\* exceeds 1000 (area exactly 1000 is discarded); the retained contours keep
\* their discovery order, and as many files are exported as are retained.
C10_AreaFilter ==
    (calls > 0 /\ seen.ok) =>
        LET img == imread(seen)
            cs == findContours(img)
            keep == {i \in DOMAIN cs : contourArea2(cs[i]) > 2 * 1000}
            rank(i) == Cardinality({j \in keep : j <= i})
            exported == {SavedMsgs[k].path : k \in DOMAIN SavedMsgs}
        IN /\ console[3] = Msg("Found valid objects", "", Cardinality(keep), 1000, 0)
           /\ Len(SavedMsgs) = Cardinality(keep)
           /\ Cardinality(exported) = Cardinality(keep)
           /\ \A i \in keep :
                /\ SavedMsgs[rank(i)].path = "segmented_parts/" \o ExpectedName(rank(i))
                /\ disk.files[ExpectedName(rank(i))] = roi_rgba(img, cs[i])
           /\ \A i \in DOMAIN cs \ keep :
                \A k \in DOMAIN SavedMsgs :
                    disk.files[ExpectedName(k)] # roi_rgba(img, cs[i])

C10_Witness ==
    /\ calls > 0
    /\ seen = [ok |-> TRUE, blobs |-> <<"edge", "ell">>]
    /\ contourArea2(findContours(imread(seen))[1]) = 2000
    /\ contourArea2(findContours(imread(seen))[2]) = 2002
    /\ Len(SavedMsgs) = 1
    /\ disk.files["part_01.png"] = roi_rgba(imread(seen), findContours(imread(seen))[2])

====
